---------------------------- MODULE Spec2Model ----------------------------
(***************************************************************************)
(* QueryBot: the hybrid query engine of src/src/app.py, src/src/utils.py   *)
(* and src/src/pdf_util.py as a state machine.                             *)
(*                                                                         *)
(* Python strings that the code inspects character by character (SQL       *)
(* statements, questions) are sequences of one-character strings.  An      *)
(* Optional value is a sequence of length at most one: None is <<>> and a  *)
(* value x is <<x>>.                                                       *)
(***************************************************************************)
EXTENDS Integers, Sequences, FiniteSets, TLC

None == <<>>
Some(x) == <<x>>

(***************************************************************************)
(* Bounds of the model.                                                    *)
(***************************************************************************)
\* The strings the guard is checked on have at most MaxFrags fragments.
MaxFrags == 3
\* The statements run_query is called on have at most MaxCallFrags fragments.
MaxCallFrags == 2
\* Questions stop when the displayed chat holds MaxChat turns.
MaxChat == 2
\* New Chat stops when MaxChats chats are stored.
MaxChats == 2
\* The most files of one upload.
MaxUpload == 2
\* The most parts of one model answer given to extract_sql_query.
MaxParts == 4
\* The most successful connect_database calls of one trace of calls.
MaxConnects == 2
\* The most turns of a stored conversation history.
MaxHistory == 5
\* The most introspections of one connection lifetime.
MaxFetches == 3
\* The most rows of a result given to convert_result_to_csv.
MaxCsvRows == 2
\* The most rows of a result given to format_query_result.
MaxRows == 11

---------------------------------------------------------------------------
(***************************************************************************)
(* str methods used by the code: strip, upper, `in`, startswith.           *)
(***************************************************************************)
LowerLetters ==
  <<"a","b","c","d","e","f","g","h","i","j","k","l","m",
    "n","o","p","q","r","s","t","u","v","w","x","y","z">>

UpperLetters ==
  <<"A","B","C","D","E","F","G","H","I","J","K","L","M",
    "N","O","P","Q","R","S","T","U","V","W","X","Y","Z">>

Whitespace == {" ", "\t", "\n", "\r"}

UpperOf ==
  [c \in {LowerLetters[i] : i \in 1..Len(LowerLetters)} |->
     UpperLetters[CHOOSE i \in 1..Len(LowerLetters) : LowerLetters[i] = c]]

UpperChar(c) == IF c \in DOMAIN UpperOf THEN UpperOf[c] ELSE c

upper(s) == SubSeq([i \in 1..Len(s) |-> UpperChar(s[i])], 1, Len(s))

SetMin(S) == CHOOSE x \in S : \A y \in S : x <= y
SetMax(S) == CHOOSE x \in S : \A y \in S : y <= x

strip(s) ==
  LET keep == {i \in 1..Len(s) : s[i] \notin Whitespace}
  IN  IF keep = {} THEN <<>> ELSE SubSeq(s, SetMin(keep), SetMax(keep))

\* Python's `k in s` for strings: k occurs in s as a contiguous substring.
Contains(s, k) ==
  \E i \in 1..(Len(s) - Len(k) + 1) : SubSeq(s, i, i + Len(k) - 1) = k

startswith(s, p) == Len(s) >= Len(p) /\ SubSeq(s, 1, Len(p)) = p

kSELECT == <<"S","E","L","E","C","T">>

forbidden ==
  << <<"D","R","O","P">>,
     <<"T","R","U","N","C","A","T","E">>,
     <<"G","R","A","N","T">>,
     <<"R","E","V","O","K","E">>,
     <<"S","H","U","T","D","O","W","N">> >>

(***************************************************************************)
(* validate_query: (is_valid, message).  The message is the sequence of    *)
(* the pieces the f-string concatenates; "" is the empty sequence.         *)
(***************************************************************************)
MsgEmpty == <<"Empty query">>
MsgForbidden(keyword) == <<"Query contains forbidden keyword: ", keyword>>
MsgOnlySelect == <<"Only SELECT queries are allowed in this demo">>

\* A guard that looks for the keywords in the text as typed.
validate_query_case_sensitive(query) ==
  LET t == strip(query)
      q == upper(t)
      hits == {i \in 1..Len(forbidden) : Contains(t, forbidden[i])}
  IN  IF q = <<>> THEN <<FALSE, MsgEmpty>>
      ELSE IF hits # {} THEN <<FALSE, MsgForbidden(forbidden[SetMin(hits)])>>
      ELSE IF ~startswith(q, kSELECT) THEN <<FALSE, MsgOnlySelect>>
      ELSE <<TRUE, <<>>>>

\* A guard that applies the SELECT rule before the keyword rule.
validate_query_select_first(query) ==
  LET q == upper(strip(query))
      hits == {i \in 1..Len(forbidden) : Contains(q, forbidden[i])}
  IN  IF q = <<>> THEN <<FALSE, MsgEmpty>>
      ELSE IF ~startswith(q, kSELECT) THEN <<FALSE, MsgOnlySelect>>
      ELSE IF hits # {} THEN <<FALSE, MsgForbidden(forbidden[SetMin(hits)])>>
      ELSE <<TRUE, <<>>>>

validate_query(query) ==
  LET q == upper(strip(query))
      hits == {i \in 1..Len(forbidden) : Contains(q, forbidden[i])}
  IN  IF q = <<>> THEN <<FALSE, MsgEmpty>>
      ELSE IF hits # {} THEN <<FALSE, MsgForbidden(forbidden[SetMin(hits)])>>
      ELSE IF ~startswith(q, kSELECT) THEN <<FALSE, MsgOnlySelect>>
      ELSE <<TRUE, <<>>>>

---------------------------------------------------------------------------
(***************************************************************************)
(* extract_sql_query.  find(s, k, from) is the least index >= from at      *)
(* which k occurs in s, 0 when there is none (str.find's -1).  The regular *)
(* expressions are compiled with IGNORECASE, so their literals are matched *)
(* on the uppercased text.                                                 *)
(***************************************************************************)
Occ(s, k, from) ==
  {i \in from..(Len(s) - Len(k) + 1) : SubSeq(s, i, i + Len(k) - 1) = k}

find(s, k, from) == IF Occ(s, k, from) = {} THEN 0 ELSE SetMin(Occ(s, k, from))

kThinkEnd == <<"<","/","t","h","i","n","k",">">>
\* The backquote character (the string lexer of TLA+ does not accept it).
BQ == "BQ"
kFence == <<BQ, BQ, BQ>>
kFenceSql == <<BQ, BQ, BQ, "S", "Q", "L">>
kSqlQuery == <<"S","Q","L"," ","Q","U","E","R","Y",":">>
kSelectSp == <<"S","E","L","E","C","T"," ">>
kSemi == <<";">>

\* The index after the run of whitespace that starts at i (greedy whitespace).
RECURSIVE SkipSpace(_, _)
SkipSpace(s, i) ==
  IF i <= Len(s) /\ s[i] \in Whitespace THEN SkipSpace(s, i + 1) ELSE i

\* First pattern: the leftmost opening sql fence that has a closing fence.
\* u is upper(t) in this and the next two definitions.
FencedStarts(t, u) ==
  {i \in Occ(u, kFenceSql, 1) : find(t, kFence, i + Len(kFenceSql)) # 0}

\* Second pattern: the prefix, whitespace, SELECT, a space and a later semicolon.
PrefixedStarts(t, u) ==
  {i \in Occ(u, kSqlQuery, 1) :
      LET j == SkipSpace(t, i + Len(kSqlQuery))
      IN  /\ startswith(SubSeq(u, j, Len(u)), kSelectSp)
          /\ find(t, kSemi, j + Len(kSelectSp)) # 0}

\* Third pattern: the leftmost SELECT and space that has a later semicolon.
BareStarts(t, u) ==
  {i \in Occ(u, kSelectSp, 1) : find(t, kSemi, i + Len(kSelectSp)) # 0}

extract_sql_query_bare_first(text) ==
  LET think_end == find(text, kThinkEnd, 1)
      t == IF think_end # 0
           THEN SubSeq(text, think_end + Len(kThinkEnd), Len(text))
           ELSE text
      u == upper(t)
      fenced == FencedStarts(t, u)
      bare == BareStarts(t, u)
  IN  IF fenced # {}
      THEN LET a == SetMin(fenced) + Len(kFenceSql)
           IN  strip(SubSeq(t, a, find(t, kFence, a) - 1))
      ELSE IF bare # {}
      THEN LET i == SetMin(bare)
           IN  strip(SubSeq(t, i, find(t, kSemi, i + Len(kSelectSp))))
      ELSE strip(t)

extract_sql_query_raw_fallback(text) ==
  LET think_end == find(text, kThinkEnd, 1)
      t == IF think_end # 0
           THEN SubSeq(text, think_end + Len(kThinkEnd), Len(text))
           ELSE text
      u == upper(t)
      fenced == FencedStarts(t, u)
      prefixed == PrefixedStarts(t, u)
      bare == BareStarts(t, u)
  IN  IF fenced # {}
      THEN LET a == SetMin(fenced) + Len(kFenceSql)
           IN  strip(SubSeq(t, a, find(t, kFence, a) - 1))
      ELSE IF prefixed # {}
      THEN LET j == SkipSpace(t, SetMin(prefixed) + Len(kSqlQuery))
           IN  strip(SubSeq(t, j, find(t, kSemi, j + Len(kSelectSp))))
      ELSE IF bare # {}
      THEN LET i == SetMin(bare)
           IN  strip(SubSeq(t, i, find(t, kSemi, i + Len(kSelectSp))))
      ELSE strip(text)

extract_sql_query(text) ==
  LET think_end == find(text, kThinkEnd, 1)
      t == IF think_end # 0
           THEN SubSeq(text, think_end + Len(kThinkEnd), Len(text))
           ELSE text
      u == upper(t)
      fenced == FencedStarts(t, u)
      prefixed == PrefixedStarts(t, u)
      bare == BareStarts(t, u)
  IN  IF fenced # {}
      THEN LET a == SetMin(fenced) + Len(kFenceSql)
           IN  strip(SubSeq(t, a, find(t, kFence, a) - 1))
      ELSE IF prefixed # {}
      THEN LET j == SkipSpace(t, SetMin(prefixed) + Len(kSqlQuery))
           IN  strip(SubSeq(t, j, find(t, kSemi, j + Len(kSelectSp))))
      ELSE IF bare # {}
      THEN LET i == SetMin(bare)
           IN  strip(SubSeq(t, i, find(t, kSemi, i + Len(kSelectSp))))
      ELSE strip(t)

---------------------------------------------------------------------------
(***************************************************************************)
(* The session machine.  One action is one run of the Streamlit script     *)
(* (IntegratedChatApp(): init_session, then setup_ui) with at most one     *)
(* widget event.  The handlers are operators on a world w:                 *)
(*   w.ss      st.session_state                                            *)
(*   w.chroma  the sources of the chunks stored in the collection that     *)
(*             persist_directory "./chroma_db" holds                       *)
(*   w.run     what the current run did (a trace of the run); its field    *)
(*             executed holds the statements passed to cursor.execute      *)
(*   w.prev    the names of the uploaded files before the last rebuild     *)
(*   w.fetched the number of get_database_metadata calls of the run; it is *)
(*             read by the specification that counts introspections        *)
(* A handler of one step is an operator from a world to a world.  A        *)
(* handler of several steps is the set of its outcomes: each step draws    *)
(* the world it starts in from the outcomes of the step before.            *)
(***************************************************************************)
Roles == {"hr", "employee"}
\* The documents a user may upload, in the order the uploader lists them.
FileOrder == <<"a.pdf", "b.pdf">>
Databases == {"hrms"}

\* A connection is kept as the parameters it was opened with (the model
\* leaves user and password out).
Params(host, port, database) ==
  [host |-> host, port |-> port, database |-> database]

\* The defaults of schema_fetch.get_database_metadata.
DefaultHost == "127.0.0.1"
DefaultPort == 3306
DefaultDatabase == "hrms"
DefaultParams == Params(DefaultHost, DefaultPort, DefaultDatabase)

\* What the user may enter in the connection form.
ConnectParams == {Params(DefaultHost, DefaultPort, d) : d \in Databases}

StructuredLabel == "MySQL"
UnstructuredLabel == "PDF"

kSalaryQuery == <<"S","E","L","E","C","T"," ","n",",","s","a","l","a","r","y"," ","F","R","O","M"," ","e",";">>
kPlainQuery == <<"S","E","L","E","C","T"," ","n"," ","F","R","O","M"," ","e",";">>
kDropQuery == <<"D","R","O","P"," ","T","A","B","L","E"," ","e",";">>
kProse == <<"n","o">>
kFenceOpen == <<BQ,BQ,BQ,"s","q","l","\n">>

Fenced(q) == kFenceOpen \o q \o <<"\n">> \o kFence

\* What the translation model may answer in a session.
RawOutputs == {Fenced(kSalaryQuery), Fenced(kPlainQuery), kDropQuery, kProse}

\* What the user may type: a question and a blank line.
Questions == {<<"h","o","w","?">>, <<" ">>}

\* What cursor.fetchall may return.
ResultSets == {<<>>, <<"row">>}

Range(f) == {f[i] : i \in DOMAIN f}

Files == Range(FileOrder)

\* The uploader's value: a list of distinct files, at most MaxUpload of them.
UploadLists ==
  {SelectSeq(FileOrder, LAMBDA f : f \in S) :
     S \in {T \in SUBSET Files : Cardinality(T) <= MaxUpload}}

NoAssistant == [vector_store |-> None, retriever |-> None, chain |-> None]

InitSession ==
  [ chat |-> <<>>,
    chat_histories |-> <<>>,
    active_chat |-> None,
    logged_in |-> FALSE,
    user_role |-> None,
    pdf_assistant |-> NoAssistant,
    pdf_processed |-> FALSE,
    chat_mode |-> None,
    uploaded_files |-> <<>>,
    conversation_history |-> <<>>,
    db |-> None,
    schema_cache |-> None ]

NoRun ==
  [ question |-> None,
    label |-> None,
    chat_before |-> <<>>,
    ingested |-> <<>>,
    history |-> None,
    errors |-> {},
    sql_path |-> FALSE,
    ask_called |-> FALSE,
    llm_called |-> FALSE,
    rq |-> None,
    ret |-> None,
    executed |-> {},
    search |-> None,
    raised |-> None,
    rerun |-> FALSE ]

\* An event: the widget the user acted on and what the outside world answers
\* during the run (driver, model, retrieval).
NoEvent ==
  [ kind |-> "none", role |-> None, ok |-> FALSE, params |-> DefaultParams,
    maintain_context |-> TRUE,
    files |-> <<>>, ingest_ok |-> {}, ingest_fail |-> "empty",
    title |-> 0, question |-> None,
    classifier |-> None, meta |-> None, llm |-> None, driver |-> "ok",
    rows |-> <<>>, retrieval |-> None, answer |-> None ]

\* The run was cut short: an exception left the script, or st.rerun().
Stopped(w) == w.run.raised # None \/ w.run.rerun

(***************************************************************************)
(* utils.py                                                                *)
(***************************************************************************)
connect_database(w, ok, params) ==
  IF ok
  THEN [w EXCEPT !.ss.db = Some(params),
                 !.ss.conversation_history = <<>>,
                 !.ss.schema_cache = None]
  ELSE [w EXCEPT !.run.errors = @ \cup {"Failed to connect"},
                 !.run.raised = Some("mysql.connector.Error")]

\* disconnect_database: the connection is closed and the key db deleted.
disconnect_database(w) ==
  IF w.ss.db # None THEN [w EXCEPT !.ss.db = None] ELSE w

MsgNotConnected == <<"Please connect to the database first.">>

\* run_query, lines 126-131: the statement goes to cursor.execute and the
\* driver answers with rows, with a mysql.connector.Error or with another
\* exception.
Executed(w, query, driver, rows) ==
  LET w1 == [w EXCEPT
               !.run.executed =
                 @ \cup {[stmt |-> query, role |-> w.ss.user_role]}]
  IN  CASE driver = "ok" ->
             [w |-> w1,
              res |-> [query |-> query, rows |-> Some(rows),
                       error |-> None, time |-> "elapsed",
                       raised |-> FALSE]]
        [] driver = "mysql_error" ->
             [w |-> w1,
              res |-> [query |-> query, rows |-> None,
                       error |-> Some(<<"Error executing query: ", "e">>),
                       time |-> "elapsed", raised |-> FALSE]]
        [] OTHER ->
             [w |-> w1,
              res |-> [query |-> query, rows |-> None, error |-> None,
                       time |-> "0", raised |-> TRUE]]

NotConnected(w, query) ==
  [w |-> w,
   res |-> [query |-> query, rows |-> None,
            error |-> Some(MsgNotConnected),
            time |-> "0", raised |-> FALSE]]

\* A run_query that hands the statement to the cursor without validating it.
run_query_unguarded(w, query, driver, rows) ==
  IF w.ss.db # None
  THEN Executed(w, query, driver, rows)
  ELSE NotConnected(w, query)

\* A run_query that returns an empty row list beside a driver error.
run_query_rows_on_error(w, query, driver, rows) ==
  LET v == validate_query(query)
  IN  IF ~v[1]
      THEN [w |-> w,
            res |-> [query |-> query, rows |-> None,
                     error |-> Some(<<"Invalid query: ">> \o v[2]),
                     time |-> "0", raised |-> FALSE]]
      ELSE IF w.ss.db # None
      THEN LET r == Executed(w, query, driver, rows)
           IN  IF r.res.error # None
               THEN [r EXCEPT !.res.rows = Some(<<>>)]
               ELSE r
      ELSE NotConnected(w, query)

\* run_query: w after the call and res, the returned (rows, error, time);
\* res.raised when an exception other than mysql.connector.Error leaves it.
run_query(w, query, driver, rows) ==
  LET v == validate_query(query)
  IN  IF ~v[1]
      THEN [w |-> w,
            res |-> [query |-> query, rows |-> None,
                     error |-> Some(<<"Invalid query: ">> \o v[2]),
                     time |-> "0", raised |-> FALSE]]
      ELSE IF w.ss.db # None
      THEN Executed(w, query, driver, rows)
      ELSE NotConnected(w, query)

\* schema_fetch.get_database_metadata(host, user, password, database, port)
\* opens its own connection with these parameters; answer is the DDL the
\* server gives, None when the introspection fails.  The result names the
\* database the DDL was read from.
get_database_metadata(params, answer) ==
  IF answer = None THEN None
  ELSE Some([ddl |-> answer[1], of |-> params])

get_cached_schema_uncached(w, answer) ==
  [w EXCEPT !.ss.schema_cache = get_database_metadata(DefaultParams, answer),
            !.fetched = @ + 1]

\* get_cached_schema: get_database_metadata is called with no argument, so
\* with its default parameters, whenever the cache holds nothing;
\* w.fetched counts these calls.
get_cached_schema(w, answer) ==
  IF w.ss.schema_cache = None
  THEN [w EXCEPT !.ss.schema_cache = get_database_metadata(DefaultParams, answer),
                 !.fetched = @ + 1]
  ELSE w

LastN(s, n) == IF Len(s) <= n THEN s ELSE SubSeq(s, Len(s) - n + 1, Len(s))

HistoryWindow == 4

recent_history_oldest(ss, maintain_context) ==
  IF maintain_context
  THEN SubSeq(ss.conversation_history, 1,
              IF Len(ss.conversation_history) <= HistoryWindow
              THEN Len(ss.conversation_history) ELSE HistoryWindow)
  ELSE <<>>

\* The turns get_llm_response puts in the prompt.
recent_history(ss, maintain_context) ==
  IF maintain_context THEN LastN(ss.conversation_history, HistoryWindow)
  ELSE <<>>

\* The history of the prompt: one line "role: content" for each turn.
HistoryLine(msg) == <<msg.role, ": ", msg.content>>

FormatHistory(msgs) == [i \in 1..Len(msgs) |-> HistoryLine(msgs[i])]

\* get_llm_response, lines 356-361: an exception of any kind ends the call
\* with an error message, no rows and time 0.
LlmFailed(w) ==
  [w |-> [w EXCEPT !.run.errors = @ \cup {"Error generating response"}],
   ret |-> <<[error_msg |-> "Error generating response"], None, "0">>]

\* get_llm_response, lines 349-355: the returned tuple, from what run_query
\* returned for sql_query.
LlmAnswer(sql_query, r) ==
  IF r.res.raised
  THEN LlmFailed([r.w EXCEPT !.run.rq = Some(r.res)])
  ELSE IF r.res.error # None /\ r.res.error[1] # <<>>
  THEN [w |-> [r.w EXCEPT !.run.rq = Some(r.res)],
        ret |-> <<[sql |-> sql_query, error |-> r.res.error[1]],
                  None, r.res.time>>]
  ELSE [w |-> [r.w EXCEPT !.run.rq = Some(r.res)],
        ret |-> <<[sql |-> sql_query, result |-> r.res.rows],
                  r.res.rows, r.res.time>>]

\* get_llm_response: the outcomes of the call, each the world w after it and
\* ret, the returned tuple (response, rows, execution time).  ev holds what
\* the introspection, the model and the driver answer.
get_llm_response(w, question, ev) ==
  UNION {
    IF ev.llm = None
    THEN {LlmFailed(w2)}
    ELSE UNION {
           {LlmAnswer(sql_query, r) :
              r \in {run_query(w2, sql_query, ev.driver, ev.rows)}} :
           sql_query \in {extract_sql_query(strip(ev.llm[1]))}} :
    w2 \in {[get_cached_schema(w, ev.meta) EXCEPT
               !.run.llm_called = TRUE,
               !.run.sql_path = TRUE,
               !.run.history =
                 Some(FormatHistory(recent_history(w.ss, ev.maintain_context)))]}}

\* classify_query_type: the label of a question, from what the model says
\* (None when the call fails).  Anything but the structured label, and every
\* failure, is the unstructured label.
classify_query_type_fail_closed(question, says) ==
  IF says = Some(UnstructuredLabel) THEN UnstructuredLabel ELSE StructuredLabel

classify_query_type(question, says) ==
  IF says = Some(StructuredLabel) THEN StructuredLabel ELSE UnstructuredLabel

\* handle_restricted_response: the answer an employee is shown.
handle_restricted_response(question, response) ==
  [restricted |-> TRUE, response |-> response]

\* display_limit and the most characters of a cell that are shown.
DisplayLimit == 10
CellLimit == 100

\* s[:n]
Prefix(s, n) == SubSeq(s, 1, IF Len(s) < n THEN Len(s) ELSE n)

\* str of a row count.
NumStr(n) ==
  CASE n = 0 -> "0" [] n = 1 -> "1" [] n = 2 -> "2" [] n = 3 -> "3"
    [] n = 4 -> "4" [] n = 5 -> "5" [] n = 6 -> "6" [] n = 7 -> "7"
    [] n = 8 -> "8" [] n = 9 -> "9" [] n = 10 -> "10" [] n = 11 -> "11"
    [] n = 12 -> "12" [] n = 13 -> "13"

\* The rows formatted here have the one column name; a cell is a string.
FormatRows == [name : {<<"a">>, <<"b">>}]
Keys(row) == <<"name">>
Values(row) == <<row.name>>

\* "| " + " | ".join(cells) + " |": the line is given as its cells.
TableLine(cells) == <<"|">> \o cells \o <<"|">>

\* The heading line and the line of the note.
Heading(n) == <<"**Query Results (", NumStr(n), " rows)**">>
TruncationNote(n) ==
  <<"Showing first ", NumStr(DisplayLimit), " of ", NumStr(n),
    " rows. Download for full results.">>

\* format_query_result with the last rows shown.
format_query_result_last_rows(result) ==
  IF result = <<>> THEN << <<"No results found.">> >>
  ELSE LET truncated == Len(result) > DisplayLimit
           display_results ==
             IF truncated
             THEN SubSeq(result, Len(result) - DisplayLimit + 1, Len(result))
             ELSE result
       IN  << Heading(Len(result)), <<>>,
              TableLine(Keys(display_results[1])),
              TableLine([c \in DOMAIN Keys(display_results[1]) |-> "---"]) >>
           \o [i \in DOMAIN display_results |->
                 TableLine([c \in DOMAIN Values(display_results[i]) |->
                              Prefix(Values(display_results[i])[c], CellLimit)])]
           \o (IF truncated THEN << <<>>, TruncationNote(Len(result)) >>
                ELSE <<>>)

\* format_query_result: the text as its lines.
format_query_result(result) ==
  IF result = <<>> THEN << <<"No results found.">> >>
  ELSE LET truncated == Len(result) > DisplayLimit
           display_results == Prefix(result, DisplayLimit)
       IN  << Heading(Len(result)), <<>>,
              TableLine(Keys(display_results[1])),
              TableLine([c \in DOMAIN Keys(display_results[1]) |-> "---"]) >>
           \o [i \in DOMAIN display_results |->
                 TableLine([c \in DOMAIN Values(display_results[i]) |->
                              Prefix(Values(display_results[i])[c], CellLimit)])]
           \o (IF truncated THEN << <<>>, TruncationNote(Len(result)) >>
                ELSE <<>>)

\* The columns of the results exported here, in projection order: an integer
\* column and a text column, both nullable.  A cell is None for NULL.
Columns == <<"id", "note">>

CsvRows ==
  [id : {None, Some(1)}, note : {None, Some(""), Some("x")}]

\* str of an integer and of the float it becomes in a column with a missing
\* value.
IntStr(n) == CASE n = 0 -> "0" [] n = 1 -> "1"
FloatStr(n) == CASE n = 0 -> "0.0" [] n = 1 -> "1.0"

HasMissing(result, col) == \E i \in DOMAIN result : result[i][col] = None

\* DataFrame.to_csv writes a missing value as the empty field (na_rep = "").
\* An integer column that holds a missing value is a float column.
CsvField(result, col, cell) ==
  IF cell = None THEN ""
  ELSE IF col = "id"
  THEN IF HasMissing(result, col) THEN FloatStr(cell[1]) ELSE IntStr(cell[1])
  ELSE cell[1]

\* The text df.to_csv(index = False) writes: the line of the column names,
\* then one line per row.  A line is given as its fields, which the writer
\* joins with commas; none of the cells here needs quoting.
to_csv(result) ==
  <<Columns>> \o
  [i \in DOMAIN result |->
     [c \in DOMAIN Columns |-> CsvField(result, Columns[c], result[i][Columns[c]])]]

\* convert_result_to_csv; pandas_ok is FALSE when building or writing the
\* frame raises.
convert_result_to_csv(result, pandas_ok) ==
  IF result = <<>> THEN None
  ELSE IF pandas_ok THEN Some(to_csv(result))
  ELSE None

(***************************************************************************)
(* pdf_util.py: ChatPDF                                                    *)
(***************************************************************************)
SearchK == 5

\* What the extractors recover from a file: "chunks" when the split leaves at
\* least one non-blank chunk, "empty" when no document or only blank chunks come
\* back (the two ValueErrors), "raises" when both loaders raise.
Loads == {"chunks", "empty", "raises"}

Bound == [vector_store |-> Some("chroma_db"),
          retriever |-> Some("mmr"),
          chain |-> Some("chain")]

\* What an extractor does with the file it reads.
ExtractorOutcomes == {"text", "nothing", "raises"}

\* Step 1 of ingest: the path the extractors read.  ocrmypdf writes
\* searchable.pdf in the temporary directory; when it raises, the path is
\* that of the original file.
ocr_output_path(file, ocr_ok) == IF ocr_ok THEN "searchable.pdf" ELSE file

LoadFrom(got) ==
  CASE got = "text" -> "chunks"
    [] got = "nothing" -> "empty"
    [] OTHER -> "raises"

\* Step 2 with the second extractor never tried.
load_documents_no_fallback(file, ocr_ok, pypdf, unstructured) ==
  [ reads |-> << [by |-> "PyPDFLoader", path |-> ocr_output_path(file, ocr_ok),
                  tmpdir |-> TRUE] >>,
    load |-> LoadFrom(pypdf) ]

\* Step 2 of ingest: PyPDFLoader reads the path, and UnstructuredPDFLoader
\* reads the same path when PyPDFLoader raises; both inside the block of the
\* temporary directory.  reads is who read which path and whether the
\* temporary directory still existed; load is what ingest goes on with.
load_documents(file, ocr_ok, pypdf, unstructured) ==
  LET path == ocr_output_path(file, ocr_ok)
      first == [by |-> "PyPDFLoader", path |-> path, tmpdir |-> TRUE]
      second == [by |-> "UnstructuredPDFLoader", path |-> path, tmpdir |-> TRUE]
  IN  IF pypdf = "raises"
      THEN [reads |-> <<first, second>>, load |-> LoadFrom(unstructured)]
      ELSE [reads |-> <<first>>, load |-> LoadFrom(pypdf)]

ingest_fresh_collection(w, file, load) ==
  IF load = "chunks"
  THEN [w |-> [w EXCEPT !.chroma = {file}, !.ss.pdf_assistant = Bound],
        ret |-> TRUE]
  ELSE [w |-> w, ret |-> FALSE]

ingest_binds_before_check(w, file, load) ==
  IF load = "raises"
  THEN [w |-> w, ret |-> FALSE]
  ELSE [w |-> [w EXCEPT !.chroma = IF load = "chunks" THEN @ \cup {file} ELSE @,
                        !.ss.pdf_assistant = Bound],
        ret |-> load = "chunks"]

\* ingest: on success the chunks of the file are added to the persisted
\* collection and the assistant is bound to that collection; every exception
\* is caught and turned into the return value False.
ingest(w, file, load) ==
  IF load = "chunks"
  THEN [w |-> [w EXCEPT !.chroma = @ \cup {file}, !.ss.pdf_assistant = Bound],
        ret |-> TRUE]
  ELSE [w |-> w, ret |-> FALSE]

clear(pdf_assistant) == NoAssistant

\* What a search of the assistant's store may return: the sources of at most
\* SearchK chunks of the collection, at least one when it holds any.
SearchResults(w) ==
  IF w.ss.pdf_assistant.vector_store = None
  THEN {{}}
  ELSE {h \in SUBSET w.chroma :
          /\ Cardinality(h) <= SearchK
          /\ (h = {} <=> w.chroma = {})}

\* ask with the check of the retrieved chunks left out.
ask_without_chunk_check(w, question, retrieval, answer) ==
  LET w0 == [w EXCEPT !.run.ask_called = TRUE]
  IN  IF w.ss.pdf_assistant.chain = None
      THEN [w |-> w0, response |-> "Please load a PDF document first."]
      ELSE IF strip(question) = <<>>
      THEN [w |-> w0, response |-> "Please provide a valid question."]
      ELSE IF retrieval = None
      THEN [w |-> w0,
            response |-> "An error occurred while processing your question."]
      ELSE IF answer = None
      THEN [w |-> [w0 EXCEPT !.run.search = retrieval, !.run.llm_called = TRUE],
            response |-> "An error occurred while processing your question."]
      ELSE [w |-> [w0 EXCEPT !.run.search = retrieval, !.run.llm_called = TRUE],
            response |-> answer[1]]

\* ask: the returned text, with w.run recording the search and the model call.
\* retrieval is None when the retriever raises, answer when the chain does.
ask(w, question, retrieval, answer) ==
  LET w0 == [w EXCEPT !.run.ask_called = TRUE]
  IN  IF w.ss.pdf_assistant.chain = None
      THEN [w |-> w0, response |-> "Please load a PDF document first."]
      ELSE IF strip(question) = <<>>
      THEN [w |-> w0, response |-> "Please provide a valid question."]
      ELSE IF retrieval = None
      THEN [w |-> w0,
            response |-> "An error occurred while processing your question."]
      ELSE LET w1 == [w0 EXCEPT !.run.search = retrieval]
           IN  IF retrieval[1] = {}
               THEN [w |-> w1,
                     response |-> "No relevant information found in the document."]
               ELSE IF answer = None
               THEN [w |-> [w1 EXCEPT !.run.llm_called = TRUE],
                     response |->
                       "An error occurred while processing your question."]
               ELSE [w |-> [w1 EXCEPT !.run.llm_called = TRUE],
                     response |-> answer[1]]

(***************************************************************************)
(* app.py: IntegratedChatApp                                               *)
(***************************************************************************)
\* show_login_page.  ev.role is the role of the user whose credentials were
\* typed, None when they match no user.
show_login_page(w, ev) ==
  IF ev.kind # "login" THEN w
  ELSE IF ev.role # None
  THEN [w EXCEPT !.ss.logged_in = TRUE,
                 !.ss.user_role = ev.role,
                 !.run.rerun = TRUE]
  ELSE [w EXCEPT !.run.errors = @ \cup {"Invalid username or password!"}]

db_connection_ui(w, ev) ==
  IF ev.kind = "connect" THEN connect_database(w, ev.ok, ev.params) ELSE w

\* The load of each file of an upload: ev says which files yield chunks and
\* how the others fail.
LoadOf(file, ev) == IF file \in ev.ingest_ok THEN "chunks" ELSE ev.ingest_fail

\* One pass of the loop of handle_pdf_upload, which drops ingest's return
\* value; run.ingested lists the calls of ingest with what they returned.
Attempt(w, file, load) ==
  CHOOSE a \in {[r.w EXCEPT !.run.ingested =
                              Append(@, [file |-> file, ret |-> r.ret])] :
                  r \in {ingest(w, file, load)}} : TRUE

RECURSIVE IngestAll_stop_on_failure(_, _, _)
IngestAll_stop_on_failure(w, files, ev) ==
  IF files = <<>> THEN w
  ELSE IF LoadOf(Head(files), ev) # "chunks"
  THEN Attempt(w, Head(files), LoadOf(Head(files), ev))
  ELSE IngestAll_stop_on_failure(
         Attempt(w, Head(files), LoadOf(Head(files), ev)), Tail(files), ev)

RECURSIVE IngestAll(_, _, _)
IngestAll(w, files, ev) ==
  IF files = <<>> THEN w
  ELSE IngestAll(Attempt(w, Head(files), LoadOf(Head(files), ev)),
                 Tail(files), ev)

\* handle_pdf_upload(uploaded_files): the value of the file uploader.
FileSetChanged(ss, uploaded_files) ==
  uploaded_files # <<>> /\ Range(uploaded_files) # Range(ss.uploaded_files)

handle_pdf_upload(w, uploaded_files, ev) ==
  IF FileSetChanged(w.ss, uploaded_files)
  THEN LET w1 == [w EXCEPT !.ss.pdf_assistant = clear(@),
                           !.ss.uploaded_files = uploaded_files,
                           !.prev = Range(w.ss.uploaded_files)]
           w2 == IngestAll(w1, uploaded_files, ev)
       IN  [w2 EXCEPT !.ss.pdf_processed = TRUE, !.run.rerun = TRUE]
  ELSE w

\* A new chat that always takes the first name.
NewChatName_first(ss) == 1

\* A chat is named "Chat n"; the model keeps the number n.
NewChatName(ss) == Cardinality(DOMAIN ss.chat_histories) + 1

NewChat(w) ==
  LET new_chat_name == NewChatName(w.ss)
  IN  [w EXCEPT !.ss.chat_histories = (new_chat_name :> <<>>) @@ @,
                !.ss.active_chat = Some(new_chat_name),
                !.ss.chat = <<>>,
                !.ss.chat_mode = None,
                !.ss.conversation_history = <<>>]

chat_history_ui(w, ev) ==
  IF ev.kind = "new_chat" THEN NewChat(w)
  ELSE IF ev.kind = "open_chat" /\ ev.title \in DOMAIN w.ss.chat_histories
  THEN [w EXCEPT !.ss.active_chat = Some(ev.title),
                 !.ss.chat = w.ss.chat_histories[ev.title]]
  ELSE w

Logout(w) ==
  [w EXCEPT !.ss.logged_in = FALSE,
            !.ss.user_role = None,
            !.ss.chat = <<>>,
            !.ss.chat_histories = <<>>,
            !.ss.active_chat = None,
            !.ss.pdf_processed = FALSE,
            !.ss.chat_mode = None,
            !.ss.conversation_history = <<>>,
            !.run.rerun = TRUE]

\* The uploader holds ev.files in the run that follows an upload.  In every
\* other run it holds the files of the last upload, or none after a login
\* (a widget that a run does not draw loses its value): no rebuild either way.
UploaderValue(w, ev) ==
  IF ev.kind = "upload" THEN ev.files ELSE w.ss.uploaded_files

\* setup_sidebar: the outcomes of the sidebar, a the world after the
\* connection form, b after the uploader, c after the chat list.
setup_sidebar(w, ev) ==
  UNION {
    UNION {
      {IF Stopped(c) THEN c
       ELSE IF ev.kind = "logout" THEN Logout(c) ELSE c :
         c \in {IF Stopped(b) THEN b ELSE chat_history_ui(b, ev)}} :
      b \in {IF Stopped(a) THEN a
             ELSE handle_pdf_upload(a, UploaderValue(a, ev), ev)}} :
    a \in {IF w.ss.user_role = Some("hr") THEN db_connection_ui(w, ev) ELSE w}}

Turn(role, content) == [role |-> role, content |-> content]

StoreChat(w) ==
  [w EXCEPT !.ss.chat_histories[w.ss.active_chat[1]] = w.ss.chat]

\* A prelude that starts a new chat in every run.
EnsureActiveChat_always(w) == NewChat(w)

\* handle_chat, lines 264-271: a session without an active chat gets one.
EnsureActiveChat(w) ==
  IF w.ss.active_chat = None THEN NewChat(w) ELSE w

\* handle_chat, lines 289-297: the two names take the returned values, the
\* answer becomes an assistant turn.  The call returns three values:
\* unpacking them into two names raises ValueError once the call has run.
TakeResponse(question, g) ==
  IF Len(g.ret) # 2
  THEN [g.w EXCEPT !.run.ret = Some(g.ret),
                   !.run.raised = Some("ValueError")]
  ELSE StoreChat(
         [g.w EXCEPT
            !.run.ret = Some(g.ret),
            !.ss.chat =
              Append(@, Turn("assistant",
                             IF g.w.ss.user_role = Some("employee")
                             THEN handle_restricted_response(question, g.ret[1])
                             ELSE g.ret[1]))])

\* A structured branch without the check of the database session.
SqlBranch_no_db_check(w, question, ev) ==
  {TakeResponse(question, g) : g \in get_llm_response(w, question, ev)}

\* handle_chat, the branch of a structured label: its outcomes.
SqlBranch(w, question, ev) ==
  IF w.ss.db = None
  THEN {[w EXCEPT !.run.errors =
                    @ \cup {"Please connect to the database first."}]}
  ELSE {TakeResponse(question, g) : g \in get_llm_response(w, question, ev)}

\* handle_chat, the branch of every other label: its outcomes.
DocBranch(w, question, ev) ==
  IF ~w.ss.pdf_processed
  THEN {[w EXCEPT !.run.errors =
                    @ \cup {"Please upload and process a PDF first."}]}
  ELSE {StoreChat([a.w EXCEPT !.ss.chat =
                     Append(@, Turn("assistant", a.response))]) :
          a \in {ask(w, question, ev.retrieval, ev.answer)}}

\* handle_chat, lines 277-282: the label is kept and the user turn appended.
TakeQuestion(w, question, query_type) ==
  [w EXCEPT !.ss.chat_mode = Some(query_type),
            !.ss.chat = Append(@, Turn("user", question)),
            !.run.question = Some(question),
            !.run.label = Some(query_type)]

\* handle_chat: its outcomes; ev.question is the value of st.chat_input.
handle_chat(w, ev) ==
  UNION {
    IF ev.question = None \/ ev.question = Some(<<>>)
    THEN {w1}
    ELSE UNION {
           UNION {
             IF query_type = StructuredLabel
             THEN SqlBranch(w3, ev.question[1], ev)
             ELSE DocBranch(w3, ev.question[1], ev) :
             w3 \in {StoreChat(TakeQuestion(w1, ev.question[1], query_type))}} :
           query_type \in {classify_query_type(ev.question[1], ev.classifier)}} :
    w1 \in {EnsureActiveChat(w)}}

\* One run of the script: its outcomes.  init_session changes nothing once
\* the keys exist.
setup_ui(w, ev) ==
  IF ~w.ss.logged_in
  THEN {show_login_page(w, ev)}
  ELSE UNION {IF Stopped(a) THEN {a} ELSE handle_chat(a, ev) :
                a \in setup_sidebar(w, ev)}

---------------------------------------------------------------------------
VARIABLES session_state, chroma_db, run, prev_files, rerun_pending,
          guard_in, guard_out

svars == <<session_state, chroma_db, run, prev_files, rerun_pending>>
gvars == <<guard_in, guard_out>>
vars == <<svars, gvars>>

World ==
  [ ss |-> session_state, chroma |-> chroma_db,
    run |-> [NoRun EXCEPT !.chat_before = session_state.chat],
    prev |-> prev_files,
    fetched |-> 0 ]

\* The script runs with event ev and the session takes one of its outcomes.
Script(ev) ==
  \E w0 \in {World} :
    \E w \in setup_ui(w0, ev) :
      /\ session_state' = w.ss
      /\ chroma_db' = w.chroma
      /\ run' = w.run
      /\ prev_files' = w.prev
      /\ rerun_pending' = w.run.rerun
      /\ UNCHANGED gvars

SessionInit ==
  /\ session_state = InitSession
  /\ chroma_db = {}
  /\ run = NoRun
  /\ prev_files = {}
  /\ rerun_pending = FALSE

Idle == ~rerun_pending
LoggedIn == Idle /\ session_state.logged_in

\* st.rerun(): the script runs again at once, with no event.
Rerun ==
  /\ rerun_pending
  /\ Script([NoEvent EXCEPT !.kind = "rerun"])

LoginClick ==
  /\ Idle /\ ~session_state.logged_in
  /\ \E r \in {None} \cup {Some(x) : x \in Roles} :
       Script([NoEvent EXCEPT !.kind = "login", !.role = r])

ConnectClick ==
  /\ LoggedIn /\ session_state.user_role = Some("hr")
  /\ \E ok \in BOOLEAN, p \in ConnectParams :
       Script([NoEvent EXCEPT !.kind = "connect", !.ok = ok, !.params = p])

\* The user puts files in the uploader; the files of good yield chunks, the
\* others fail the way fail says.
Upload ==
  /\ LoggedIn
  /\ \E u \in UploadLists \ {<<>>} :
       \E good \in SUBSET Range(u) :
         \E fail \in Loads \ {"chunks"} :
           Script([NoEvent EXCEPT !.kind = "upload", !.files = u,
                                  !.ingest_ok = good, !.ingest_fail = fail])

NewChatClick ==
  /\ LoggedIn
  /\ Cardinality(DOMAIN session_state.chat_histories) < MaxChats
  /\ Script([NoEvent EXCEPT !.kind = "new_chat"])

OpenChatClick ==
  /\ LoggedIn
  /\ \E t \in DOMAIN session_state.chat_histories :
       Script([NoEvent EXCEPT !.kind = "open_chat", !.title = t])

LogoutClick ==
  /\ LoggedIn
  /\ Script([NoEvent EXCEPT !.kind = "logout"])

\* What the driver may answer to an executed statement.
DriverAnswers ==
  {[driver |-> "ok", rows |-> r] : r \in ResultSets}
    \cup {[driver |-> d, rows |-> <<>>] : d \in {"mysql_error", "other_error"}}

\* What the outside world may answer while a structured question is handled:
\* the introspection, the translation model and the driver.  An answer that
\* the run never asks for is left at its default.
SqlAnswers ==
  LET metas == IF session_state.db # None /\ session_state.schema_cache = None
               THEN {None, Some("ddl")} ELSE {None}
      drivers(sql_query) ==
        IF validate_query(sql_query)[1]
        THEN DriverAnswers ELSE {[driver |-> "ok", rows |-> <<>>]}
  IN  IF session_state.db = None
      THEN {[meta |-> None, llm |-> None, driver |-> "ok", rows |-> <<>>]}
      ELSE {[meta |-> m, llm |-> None, driver |-> "ok", rows |-> <<>>] :
              m \in metas}
           \cup UNION {
                  UNION {{[meta |-> m, llm |-> Some(x),
                           driver |-> d.driver, rows |-> d.rows] :
                             m \in metas, d \in drivers(sql_query)} :
                         sql_query \in {extract_sql_query(strip(x))}} :
                  x \in RawOutputs}

\* A question the classifier labels structured.
AskStructured ==
  /\ LoggedIn /\ Len(session_state.chat) < MaxChat
  /\ \E q \in Questions, a \in SqlAnswers :
       Script([NoEvent EXCEPT !.kind = "question", !.question = Some(q),
                 !.classifier = Some(StructuredLabel), !.meta = a.meta,
                 !.llm = a.llm, !.driver = a.driver, !.rows = a.rows])

\* What the retriever and the answering chain may do with question q; both
\* at their defaults when the run consults neither.
DocAnswers(q) ==
  IF \/ ~session_state.pdf_processed
     \/ session_state.pdf_assistant.chain = None
     \/ strip(q) = <<>>
  THEN {[retrieval |-> None, answer |-> None]}
  ELSE {[retrieval |-> None, answer |-> None]}
       \cup UNION {{[retrieval |-> Some(h), answer |-> a] :
                      a \in IF h = {} THEN {None} ELSE {None, Some("answer")}} :
                   h \in SearchResults(World)}

\* A question the classifier labels unstructured, or fails to label.
AskUnstructured ==
  /\ LoggedIn /\ Len(session_state.chat) < MaxChat
  /\ \E q \in Questions, says \in {None, Some(UnstructuredLabel), Some("?")} :
       \E a \in DocAnswers(q) :
         Script([NoEvent EXCEPT !.kind = "question", !.question = Some(q),
                   !.classifier = says, !.retrieval = a.retrieval,
                   !.answer = a.answer])

Init == SessionInit /\ guard_in = <<>> /\ guard_out = None

\* The structured side of a session: login, connection, questions.
NextSql ==
  \/ Rerun
  \/ LoginClick
  \/ ConnectClick
  \/ LogoutClick
  \/ AskStructured
  \/ AskUnstructured

SpecSql == Init /\ [][NextSql]_vars

\* The document side of a session: login, uploads, questions.
NextDocs ==
  \/ Rerun
  \/ LoginClick
  \/ LogoutClick
  \/ Upload
  \/ AskUnstructured

SpecDocs == Init /\ [][NextDocs]_vars

\* Both sides, in the chat that the first run after a login creates.
NextRouter ==
  \/ Rerun
  \/ LoginClick
  \/ ConnectClick
  \/ Upload
  \/ LogoutClick
  \/ AskStructured
  \/ AskUnstructured

SpecRouter == Init /\ [][NextRouter]_vars

\* A question the classifier labels structured, asked while the translation
\* model is down.
AskStructuredModelDown ==
  /\ LoggedIn /\ Len(session_state.chat) < MaxChat
  /\ \E q \in Questions, a \in {x \in SqlAnswers : x.llm = None} :
       Script([NoEvent EXCEPT !.kind = "question", !.question = Some(q),
                 !.classifier = Some(StructuredLabel), !.meta = a.meta,
                 !.llm = a.llm, !.driver = a.driver, !.rows = a.rows])

\* The chats of a session: new chats, opened chats and questions of both
\* labels.  The session starts logged out, without a connection or with the
\* one an earlier hr login opened, which Logout keeps.
ChatsInit ==
  /\ \E db \in {None, Some(DefaultParams)} :
       session_state = [InitSession EXCEPT !.db = db]
  /\ chroma_db = {}
  /\ run = NoRun
  /\ prev_files = {}
  /\ rerun_pending = FALSE
  /\ guard_in = <<>>
  /\ guard_out = None

NextChats ==
  \/ Rerun
  \/ LoginClick
  \/ NewChatClick
  \/ OpenChatClick
  \/ LogoutClick
  \/ AskStructuredModelDown
  \/ AskUnstructured

SpecChats == ChatsInit /\ [][NextChats]_vars

Next ==
  \/ Rerun
  \/ LoginClick
  \/ ConnectClick
  \/ Upload
  \/ NewChatClick
  \/ OpenChatClick
  \/ LogoutClick
  \/ AskStructured
  \/ AskUnstructured

Spec == Init /\ [][Next]_vars

---------------------------------------------------------------------------
(***************************************************************************)
(* The inputs the guard is checked on: every concatenation of at most      *)
(* MaxFrags fragments.  The fragments put keywords in every letter case,   *)
(* at the start, inside an identifier and split across two fragments.      *)
(***************************************************************************)
Fragments ==
  { <<"S","E","L","E","C","T">>,
    <<"s","e","l","e","c","t">>,
    <<" ">>,
    <<"x">>,
    <<"\n">>,
    <<"D","R","O","P">>,
    <<"d","R","o","P">>,
    <<"D","r">>,
    <<"o","p">>,
    <<"T","R","U","N","C","A","T","E">>,
    <<"g","r","a","n","t">>,
    <<"R","e","v","o","k","e">>,
    <<"s","h","u","t","d","o","w","n">>,
    <<"U","P","D","A","T","E">> }

RECURSIVE Concat(_)
Concat(ss) == IF ss = <<>> THEN <<>> ELSE Head(ss) \o Concat(Tail(ss))

FragSeqs(n) == UNION {[1..k -> Fragments] : k \in 0..n}

GuardInit ==
  /\ SessionInit
  /\ guard_in \in {Concat(fs) : fs \in FragSeqs(MaxFrags)}
  /\ guard_out = None

Validate ==
  /\ guard_out = None
  /\ guard_out' = Some(validate_query(guard_in))
  /\ UNCHANGED <<guard_in, svars>>

GuardNext == Validate

SpecGuard == GuardInit /\ [][GuardNext]_vars

(***************************************************************************)
(* The outputs extract_sql_query is checked on: every concatenation of at  *)
(* most MaxParts parts of a model answer: the fences of a code block, the  *)
(* "SQL query:" prefix, statements with and without their semicolon, in    *)
(* both letter cases, prose, and the end marker of a reasoning block.      *)
(***************************************************************************)
Parts ==
  { <<BQ, BQ, BQ, "s", "q", "l">>,
    <<BQ, BQ, BQ>>,
    <<"S","Q","L"," ","q","u","e","r","y",":">>,
    <<"S","E","L","E","C","T"," ","a",";">>,
    <<"s","e","l","e","c","t"," ","b">>,
    <<";">>,
    <<" ">>,
    <<"n","o">>,
    kThinkEnd }

PartSeqs(n) == UNION {[1..k -> Parts] : k \in 0..n}

ExtractInit ==
  /\ SessionInit
  /\ guard_in \in {Concat(ps) : ps \in PartSeqs(MaxParts)}
  /\ guard_out = None

Extract ==
  /\ guard_out = None
  /\ guard_out' = Some(extract_sql_query(guard_in))
  /\ UNCHANGED <<guard_in, svars>>

ExtractNext == Extract

SpecExtract == ExtractInit /\ [][ExtractNext]_vars

(***************************************************************************)
(* run_query and get_llm_response called on their own: on every statement  *)
(* of at most MaxCallFrags fragments, with and without a database session, *)
(* and with every answer of the model and of the driver.  guard_out keeps  *)
(* the function called and what the model and the driver answered.         *)
(***************************************************************************)
CallInit ==
  /\ \E r \in Roles, d \in {None, Some(DefaultParams)} :
       session_state = [InitSession EXCEPT !.logged_in = TRUE,
                                           !.user_role = Some(r),
                                           !.db = d]
  /\ chroma_db = {}
  /\ run = NoRun
  /\ prev_files = {}
  /\ rerun_pending = FALSE
  /\ guard_in \in {Concat(fs) : fs \in FragSeqs(MaxCallFrags)}
  /\ guard_out = None

RunQueryCall ==
  /\ guard_out = None
  /\ \E a \in DriverAnswers :
       \E w0 \in {World} :
       \E r \in {run_query(w0, guard_in, a.driver, a.rows)} :
         /\ run' = [r.w.run EXCEPT !.rq = Some(r.res)]
         /\ session_state' = r.w.ss
         /\ guard_out' = Some([op |-> "run_query", llm |-> FALSE,
                               driver |-> a.driver])
  /\ UNCHANGED <<chroma_db, prev_files, rerun_pending, guard_in>>

\* The translation model answers guard_in, or the call fails.
GetLlmResponseCall ==
  /\ guard_out = None
  /\ \E a \in DriverAnswers, l \in {None, Some(guard_in)},
        m \in {None, Some("ddl")} :
       \E w0 \in {World} :
       \E g \in get_llm_response(w0, <<"h","o","w","?">>,
                   [NoEvent EXCEPT !.meta = m, !.llm = l,
                                   !.driver = a.driver, !.rows = a.rows]) :
         /\ run' = [g.w.run EXCEPT !.ret = Some(g.ret)]
         /\ session_state' = g.w.ss
         /\ guard_out' = Some([op |-> "get_llm_response", llm |-> l # None,
                               driver |-> a.driver])
  /\ UNCHANGED <<chroma_db, prev_files, rerun_pending, guard_in>>

CallNext ==
  \/ RunQueryCall
  \/ GetLlmResponseCall

SpecCalls == CallInit /\ [][CallNext]_vars

---------------------------------------------------------------------------
(***************************************************************************)
(* The methods of one ChatPDF called on their own, in any order, over a     *)
(* persisted collection that may already hold chunks.  guard_out keeps the *)
(* last call: its arguments, what it returned, and the assistant and the   *)
(* collection as they were before it.  The retriever of ask may raise or   *)
(* return any chunks of the collection, or none; the chain may raise.      *)
(***************************************************************************)
IngestInit ==
  /\ session_state = InitSession
  /\ chroma_db \in SUBSET Files
  /\ run = NoRun
  /\ prev_files = {}
  /\ rerun_pending = FALSE
  /\ guard_in = <<>>
  /\ guard_out = None

Before == [pdf_assistant |-> session_state.pdf_assistant, chroma |-> chroma_db]

IngestCall ==
  /\ \E file \in Files, ocr_ok \in BOOLEAN :
       \E pypdf \in ExtractorOutcomes, unstructured \in ExtractorOutcomes :
       \E x \in {load_documents(file, ocr_ok, pypdf, unstructured)} :
       \E w0 \in {World} :
       \E r \in {ingest(w0, file, x.load)} :
         /\ session_state' = r.w.ss
         /\ chroma_db' = r.w.chroma
         /\ guard_out' = Some([op |-> "ingest", file |-> file, load |-> x.load,
                               ocr_ok |-> ocr_ok, pypdf |-> pypdf,
                               unstructured |-> unstructured,
                               reads |-> x.reads,
                               ret |-> r.ret, before |-> Before])
  /\ UNCHANGED <<run, prev_files, rerun_pending, guard_in>>

ClearCall ==
  /\ session_state' = [session_state EXCEPT !.pdf_assistant = clear(@)]
  /\ guard_out' = Some([op |-> "clear", before |-> Before])
  /\ UNCHANGED <<chroma_db, run, prev_files, rerun_pending, guard_in>>

AskCall ==
  /\ \E q \in Questions :
       \E w0 \in {[World EXCEPT !.run = NoRun]} :
       \E h \in {None, Some({})} \cup {Some(x) : x \in SearchResults(w0)} :
       \E a \in {None, Some("answer")} :
       \E r \in {ask(w0, q, h, a)} :
         /\ run' = r.w.run
         /\ guard_out' = Some([op |-> "ask", question |-> q,
                               ret |-> r.response, before |-> Before])
  /\ UNCHANGED <<session_state, chroma_db, prev_files, rerun_pending, guard_in>>

IngestNext ==
  \/ IngestCall
  \/ ClearCall
  \/ AskCall

SpecIngest == IngestInit /\ [][IngestNext]_vars

---------------------------------------------------------------------------
(***************************************************************************)
(* connect_database, disconnect_database and get_cached_schema called on   *)
(* their own, in any order and with every outcome of the connection and of *)
(* the introspection.  A connection lifetime starts at a successful        *)
(* connect_database.  guard_out keeps the last call and, for the lifetime  *)
(* it falls in: ok, whether a connection was opened or closed; lifetime,   *)
(* the number of successful connects so far; now, the introspections of   *)
(* the call;                                                               *)
(* fetches, the introspections issued; good, whether one of them           *)
(* succeeded; late, the introspections issued after one that succeeded.    *)
(***************************************************************************)
SchemaParams ==
  { DefaultParams,
    Params(DefaultHost, DefaultPort, "sales"),
    Params("10.0.0.5", 3307, DefaultDatabase) }

SchemaInit ==
  /\ session_state = [InitSession EXCEPT !.logged_in = TRUE,
                                         !.user_role = Some("hr")]
  /\ chroma_db = {}
  /\ run = NoRun
  /\ prev_files = {}
  /\ rerun_pending = FALSE
  /\ guard_in = <<>>
  /\ guard_out = Some([op |-> "init", ok |-> TRUE, lifetime |-> 0,
                       now |-> 0, fetches |-> 0, good |-> FALSE, late |-> 0,
                       ret |-> None])

ConnectCall ==
  /\ guard_out[1].lifetime < MaxConnects
  /\ \E ok \in BOOLEAN, p \in SchemaParams :
       \E w0 \in {[World EXCEPT !.run = NoRun]} :
       \E w \in {connect_database(w0, ok, p)} :
         /\ session_state' = w.ss
         /\ run' = w.run
         /\ guard_out' =
              Some(IF ok
                   THEN [op |-> "connect", ok |-> TRUE,
                         lifetime |-> guard_out[1].lifetime + 1,
                         now |-> 0, fetches |-> 0, good |-> FALSE, late |-> 0,
                         ret |-> None]
                   ELSE [guard_out[1] EXCEPT !.op = "connect", !.ok = FALSE,
                                             !.now = 0, !.ret = None])
  /\ UNCHANGED <<chroma_db, prev_files, rerun_pending, guard_in>>

DisconnectCall ==
  /\ \E w0 \in {[World EXCEPT !.run = NoRun]} :
     \E w \in {disconnect_database(w0)} :
       /\ session_state' = w.ss
       /\ run' = w.run
       /\ guard_out' = Some([guard_out[1] EXCEPT !.op = "disconnect",
                                                 !.ok = (w0.ss.db # None),
                                                 !.now = 0, !.ret = None])
  /\ UNCHANGED <<chroma_db, prev_files, rerun_pending, guard_in>>

GetCachedSchemaCall ==
  /\ guard_out[1].fetches < MaxFetches
  /\ \E answer \in {None, Some("ddl")} :
       \E w0 \in {[World EXCEPT !.run = NoRun]} :
       \E w \in {get_cached_schema(w0, answer)} :
       \E n \in {w.fetched} :
         /\ session_state' = w.ss
         /\ run' = w.run
         /\ guard_out' =
              Some([guard_out[1] EXCEPT
                      !.op = "get_cached_schema",
                      !.ok = TRUE,
                      !.now = n,
                      !.fetches = @ + n,
                      !.late = IF guard_out[1].good THEN @ + n ELSE @,
                      !.good = @ \/ (n > 0 /\ w.ss.schema_cache # None),
                      !.ret = w.ss.schema_cache])
  /\ UNCHANGED <<chroma_db, prev_files, rerun_pending, guard_in>>

SchemaNext ==
  \/ ConnectCall
  \/ DisconnectCall
  \/ GetCachedSchemaCall

SpecSchema == SchemaInit /\ [][SchemaNext]_vars

---------------------------------------------------------------------------
(***************************************************************************)
(* get_llm_response called on a session whose conversation_history holds   *)
(* any sequence of at most MaxHistory turns, with maintain_context true    *)
(* and false.  guard_out keeps maintain_context and the history as it was  *)
(* before the call.                                                        *)
(***************************************************************************)
TurnSet == {Turn(r, c) : r \in {"user", "assistant"}, c \in Questions}

Histories == UNION {[1..n -> TurnSet] : n \in 0..MaxHistory}

HistoryInit ==
  /\ \E h \in Histories :
       session_state = [InitSession EXCEPT !.logged_in = TRUE,
                                           !.user_role = Some("hr"),
                                           !.db = Some(DefaultParams),
                                           !.conversation_history = h]
  /\ chroma_db = {}
  /\ run = NoRun
  /\ prev_files = {}
  /\ rerun_pending = FALSE
  /\ guard_in = <<>>
  /\ guard_out = None

HistoryCall ==
  /\ guard_out = None
  /\ \E mc \in BOOLEAN, l \in {None, Some(kPlainQuery)} :
       \E w0 \in {World} :
       \E g \in get_llm_response(w0, <<"h","o","w","?">>,
                   [NoEvent EXCEPT !.maintain_context = mc, !.llm = l,
                                   !.meta = Some("ddl")]) :
         /\ run' = [g.w.run EXCEPT !.ret = Some(g.ret)]
         /\ session_state' = g.w.ss
         /\ guard_out' = Some([maintain_context |-> mc,
                               before |-> session_state.conversation_history])
  /\ UNCHANGED <<chroma_db, prev_files, rerun_pending, guard_in>>

HistoryNext == HistoryCall

SpecHistory == HistoryInit /\ [][HistoryNext]_vars

---------------------------------------------------------------------------
(***************************************************************************)
(* handle_chat called on a logged-in session of either role, with and      *)
(* without a database session and a processed upload, for every answer of  *)
(* the classifier: one of the two labels, another text, or a failed call.  *)
(* guard_out keeps what the classifier said and the session as it was      *)
(* before the call.                                                        *)
(***************************************************************************)
ClassifierSays ==
  {None, Some(StructuredLabel), Some(UnstructuredLabel), Some("?")}

\* The upload side of a session: nothing uploaded, an upload whose ingests
\* all failed, an upload that built an index.
UploadStates ==
  { [pdf_processed |-> FALSE, pdf_assistant |-> NoAssistant, chroma |-> {}],
    [pdf_processed |-> TRUE, pdf_assistant |-> NoAssistant, chroma |-> {}],
    [pdf_processed |-> TRUE, pdf_assistant |-> Bound, chroma |-> {"a.pdf"}] }

RouteInit ==
  /\ \E r \in Roles, d \in {None, Some(DefaultParams)}, u \in UploadStates :
       /\ session_state =
            [InitSession EXCEPT !.logged_in = TRUE,
                                !.user_role = Some(r),
                                !.db = d,
                                !.pdf_processed = u.pdf_processed,
                                !.pdf_assistant = u.pdf_assistant]
       /\ chroma_db = u.chroma
  /\ run = NoRun
  /\ prev_files = {}
  /\ rerun_pending = FALSE
  /\ guard_in = <<>>
  /\ guard_out = None

HandleChatCall ==
  /\ guard_out = None
  /\ \E q \in Questions, says \in ClassifierSays :
       \E a \in SqlAnswers, b \in DocAnswers(q) :
       \E w0 \in {World} :
       \E w \in handle_chat(w0, [NoEvent EXCEPT
                                   !.kind = "question", !.question = Some(q),
                                   !.classifier = says, !.meta = a.meta,
                                   !.llm = a.llm, !.driver = a.driver,
                                   !.rows = a.rows, !.retrieval = b.retrieval,
                                   !.answer = b.answer]) :
         /\ session_state' = w.ss
         /\ run' = w.run
         /\ guard_out' = Some([says |-> says, before |-> session_state])
  /\ UNCHANGED <<chroma_db, prev_files, rerun_pending, guard_in>>

RouteNext == HandleChatCall

SpecRoute == RouteInit /\ [][RouteNext]_vars

---------------------------------------------------------------------------
(***************************************************************************)
(* Two browser sessions of one server process.  Each has its own           *)
(* st.session_state, hence its own ChatPDF; both run the same script, whose *)
(* ingest writes to persist_directory "./chroma_db" of the process.  The   *)
(* session variables are those of session A.  Of session B, guard_out      *)
(* keeps st.session_state and guard_in what its last run searched and      *)
(* whether it asked for a rerun.  The runs of the two sessions interleave  *)
(* run by run; each session uploads one file set.                          *)
(***************************************************************************)
OtherSession == guard_out[1]

OtherWorld ==
  [ ss |-> OtherSession, chroma |-> chroma_db,
    run |-> [NoRun EXCEPT !.chat_before = OtherSession.chat],
    prev |-> {},
    fetched |-> 0 ]

\* Session B's script runs with event ev.
OtherScript(ev) ==
  \E w0 \in {OtherWorld} :
    \E w \in setup_ui(w0, ev) :
      /\ guard_out' = Some(w.ss)
      /\ chroma_db' = w.chroma
      /\ guard_in' = [search |-> w.run.search, rerun |-> w.run.rerun]
      /\ UNCHANGED <<session_state, run, prev_files, rerun_pending>>

SharedInit ==
  /\ session_state = [InitSession EXCEPT !.logged_in = TRUE,
                                         !.user_role = Some("hr")]
  /\ chroma_db = {}
  /\ run = NoRun
  /\ prev_files = {}
  /\ rerun_pending = FALSE
  /\ guard_in = [search |-> None, rerun |-> FALSE]
  /\ guard_out = Some([InitSession EXCEPT !.logged_in = TRUE,
                                          !.user_role = Some("employee")])

FirstUpload == session_state.uploaded_files = <<>> /\ Upload

OtherRerun ==
  /\ guard_in.rerun
  /\ OtherScript([NoEvent EXCEPT !.kind = "rerun"])

OtherUpload ==
  /\ ~guard_in.rerun
  /\ OtherSession.uploaded_files = <<>>
  /\ \E u \in UploadLists \ {<<>>} :
       \E good \in SUBSET Range(u) :
         \E fail \in Loads \ {"chunks"} :
           OtherScript([NoEvent EXCEPT !.kind = "upload", !.files = u,
                                       !.ingest_ok = good, !.ingest_fail = fail])

OtherAsk ==
  /\ ~guard_in.rerun
  /\ Len(OtherSession.chat) < MaxChat
  /\ \E q \in Questions :
       \E h \in {None} \cup {Some(x) : x \in SearchResults(OtherWorld)} :
         OtherScript([NoEvent EXCEPT !.kind = "question", !.question = Some(q),
                        !.classifier = Some(UnstructuredLabel),
                        !.retrieval = h, !.answer = Some("answer")])

SharedNext ==
  \/ Rerun
  \/ FirstUpload
  \/ AskUnstructured
  \/ OtherRerun
  \/ OtherUpload
  \/ OtherAsk

SpecShared == SharedInit /\ [][SharedNext]_vars

---------------------------------------------------------------------------
(***************************************************************************)
(* convert_result_to_csv called on its own, on two results at a time.      *)
(* guard_in keeps the two results and guard_out the two values returned.   *)
(***************************************************************************)
CsvResults ==
  UNION {[1..n -> CsvRows] : n \in 0..MaxCsvRows}

CsvInit ==
  /\ session_state = InitSession
  /\ chroma_db = {}
  /\ run = NoRun
  /\ prev_files = {}
  /\ rerun_pending = FALSE
  /\ guard_in = <<>>
  /\ guard_out = None

ConvertCall ==
  /\ guard_out = None
  /\ \E result \in CsvResults, other \in CsvResults, pandas_ok \in BOOLEAN :
       /\ guard_in' = <<result, other>>
       /\ guard_out' = Some(<<convert_result_to_csv(result, pandas_ok),
                              convert_result_to_csv(other, pandas_ok)>>)
  /\ UNCHANGED <<session_state, chroma_db, run, prev_files, rerun_pending>>

CsvNext == ConvertCall

SpecCsv == CsvInit /\ [][CsvNext]_vars

---------------------------------------------------------------------------
(***************************************************************************)
(* format_query_result called on its own.  guard_in keeps the result and   *)
(* guard_out the text returned.                                            *)
(***************************************************************************)
FormatResults ==
  UNION {[1..n -> FormatRows] : n \in 0..MaxRows}

FormatInit == CsvInit

FormatCall ==
  /\ guard_out = None
  /\ \E result \in FormatResults :
       /\ guard_in' = result
       /\ guard_out' = Some(format_query_result(result))
  /\ UNCHANGED <<session_state, chroma_db, run, prev_files, rerun_pending>>

FormatNext == FormatCall

SpecFormat == FormatInit /\ [][FormatNext]_vars

---------------------------------------------------------------------------
(***************************************************************************)
(* Properties.                                                             *)
(***************************************************************************)
\* c and d are the same character, or the same letter in two cases.
SameLetter(c, d) ==
  \/ c = d
  \/ \E i \in 1..Len(LowerLetters) : {c, d} = {LowerLetters[i], UpperLetters[i]}

\* k occurs in s at some position, in any letter case.
ContainsAnyCase(s, k) ==
  \E i \in 1..(Len(s) - Len(k) + 1) :
     \A j \in 1..Len(k) : SameLetter(s[i + j - 1], k[j])

HasForbidden(s) == \E i \in 1..Len(forbidden) : ContainsAnyCase(s, forbidden[i])

Rejected(query) == ~validate_query(query)[1]

\* C1: run_query passes a statement to the cursor only after validate_query
\* accepted that same statement; for a statement that validate_query rejects
\* it returns an "Invalid query" error with null rows and executes nothing,
\* with a database session or without one.
C1_ExecutesOnlyValidated ==
  /\ \A e \in run.executed : ~Rejected(e.stmt)
  /\ run.rq # None =>
       LET r == run.rq[1]
       IN  /\ \A e \in run.executed : e.stmt = r.query
           /\ Rejected(r.query) =>
                /\ r.rows = None
                /\ r.error # None
                /\ Head(r.error[1]) = "Invalid query: "
                /\ run.executed = {}

\* run_query was called on a rejected statement while a session was active.
C1_Witness ==
  /\ guard_out # None /\ guard_out[1].op = "run_query"
  /\ session_state.db # None
  /\ run.rq # None /\ Rejected(run.rq[1].query)

\* C2: every string that contains DROP, TRUNCATE, GRANT, REVOKE or SHUTDOWN,
\* in any letter case and at any position, is rejected by validate_query.
C2_ForbiddenRejected ==
  (guard_out # None /\ HasForbidden(guard_in)) => ~guard_out[1][1]

\* A string that begins with SELECT and holds DROP in mixed case was judged.
C2_Witness ==
  /\ guard_out # None
  /\ startswith(upper(strip(guard_in)), kSELECT)
  /\ ContainsAnyCase(guard_in, forbidden[1])
  /\ ~Contains(guard_in, forbidden[1])

\* The role taken to have the restricted column set {salary}.
RestrictedRole == "employee"
kSalary == <<"S","A","L","A","R","Y">>
kFrom == <<"F","R","O","M">>

\* The statement names the column in its projection, before FROM.
Projects(stmt, column) ==
  LET u == upper(stmt)
      f == find(u, kFrom, 1)
  IN  Contains(IF f = 0 THEN u ELSE SubSeq(u, 1, f - 1), column)

\* C3: with salary restricted for a role, a statement of that role that
\* projects salary is rejected before it is executed: no executed statement
\* of the role projects salary.
C3_RestrictedColumnRejected ==
  \A e \in run.executed :
     e.role = Some(RestrictedRole) => ~Projects(e.stmt, kSalary)

\* C4 as stated: every string that does not begin with SELECT after trimming
\* and uppercasing is rejected with the only-SELECT reason.
C4_OnlySelectReason ==
  (guard_out # None /\ ~startswith(upper(strip(guard_in)), kSELECT))
    => guard_out[1] = <<FALSE, MsgOnlySelect>>

\* C4 amended: every string that does not begin with SELECT after trimming
\* and uppercasing is rejected; the reason is the empty-query reason for an
\* empty string, the forbidden-keyword reason for a string that holds a
\* forbidden keyword, and the only-SELECT reason exactly for the others.
C4_NonSelectRejected ==
  LET q == upper(strip(guard_in))
  IN  (guard_out # None /\ ~startswith(q, kSELECT)) =>
        /\ ~guard_out[1][1]
        /\ q = <<>> => guard_out[1][2] = MsgEmpty
        /\ (q # <<>> /\ HasForbidden(guard_in)) =>
             Head(guard_out[1][2]) = Head(MsgForbidden(<<>>))
        /\ guard_out[1][2] = MsgOnlySelect
             <=> (q # <<>> /\ ~HasForbidden(guard_in))

\* A non-empty string without keyword and without SELECT was rejected.
C4_Witness ==
  /\ guard_out # None
  /\ strip(guard_in) # <<>>
  /\ ~startswith(upper(strip(guard_in)), kSELECT)
  /\ ~HasForbidden(guard_in)
  /\ guard_out[1] = <<FALSE, MsgOnlySelect>>

\* C5: run_query and get_llm_response return rows only beside a null error
\* and for a statement validate_query allowed; the rows are null when the
\* statement is rejected, when no session is active, when the driver raises
\* and when any other exception occurs.
C5_RowsOnlyOnSuccess ==
  /\ run.rq # None =>
       LET r == run.rq[1]
       IN  /\ r.rows # None =>
                (r.error = None /\ ~r.raised /\ ~Rejected(r.query))
           /\ ( \/ Rejected(r.query)
                \/ session_state.db = None
                \/ (guard_out # None /\ guard_out[1].driver # "ok")
                \/ r.error # None
                \/ r.raised ) => r.rows = None
  /\ run.ret # None =>
       LET rows == run.ret[1][2]
       IN  /\ rows # None =>
                /\ run.rq # None
                /\ run.rq[1].rows = rows
                /\ run.rq[1].error = None
                /\ ~Rejected(run.rq[1].query)
           /\ ( \/ run.rq = None
                \/ run.rq[1].rows = None
                \/ (guard_out # None /\ ~guard_out[1].llm) ) => rows = None

\* get_llm_response returned the rows of an executed statement.
C5_Witness ==
  /\ guard_out # None /\ guard_out[1].op = "get_llm_response"
  /\ run.ret # None /\ run.ret[1][2] # None
  /\ run.executed # {}

\* C6: a question enters the SQL path exactly when its label is structured
\* and a database session is active; with a structured label and no session
\* the connect-first error is shown, no model is called, no statement is
\* executed and the run ends in the idle state.
C6_SqlPathIffConnected ==
  run.question # None =>
    /\ run.sql_path
         <=> (run.label = Some(StructuredLabel) /\ session_state.db # None)
    /\ (run.label = Some(StructuredLabel) /\ session_state.db = None) =>
         /\ "Please connect to the database first." \in run.errors
         /\ ~run.llm_called
         /\ run.rq = None /\ run.ret = None
         /\ run.executed = {}
         /\ run.raised = None /\ ~rerun_pending

\* A structured question was asked without a database session.
C6_Witness ==
  /\ run.question # None
  /\ run.label = Some(StructuredLabel)
  /\ session_state.db = None
  /\ run.errors # {}

\* The assistant holds a built index.
HoldsIndex == session_state.pdf_assistant.vector_store # None

\* C7: a question enters the retrieval path exactly when its label is
\* unstructured and the assistant holds an index built from the uploaded
\* files; in every state pdf_processed is true exactly when the assistant
\* holds a built index.
C7_GateMatchesIndex ==
  /\ session_state.pdf_processed <=> HoldsIndex
  /\ run.question # None =>
       (run.ask_called
          <=> (run.label = Some(UnstructuredLabel) /\ HoldsIndex))

\* C8: a handled question appends one user turn and at most one assistant
\* turn to the chat, the user turn first, and leaves the earlier turns as
\* they were.
C8_OneUserAtMostOneAssistant ==
  run.question # None =>
    LET old == run.chat_before
        new == session_state.chat
        n == Len(old)
    IN  /\ Len(new) \in {n + 1, n + 2}
        /\ SubSeq(new, 1, n) = old
        /\ new[n + 1] = Turn("user", run.question[1])
        /\ Len(new) = n + 2 => new[n + 2].role = "assistant"

\* A question was answered from the documents in a chat that held turns.
C8_Witness ==
  /\ run.question # None
  /\ run.ask_called
  /\ run.chat_before # <<>>
  /\ Len(session_state.chat) = Len(run.chat_before) + 2

\* C9: when get_llm_response has returned for a structured question asked
\* with a database session, the chat holds one new user turn followed by
\* one new assistant turn.
C9_StructuredAnswerTurns ==
  (run.question # None /\ run.label = Some(StructuredLabel) /\ run.ret # None)
    =>
    LET old == run.chat_before
        new == session_state.chat
        n == Len(old)
    IN  /\ Len(new) = n + 2
        /\ SubSeq(new, 1, n) = old
        /\ new[n + 1] = Turn("user", run.question[1])
        /\ new[n + 2].role = "assistant"

\* C10: after a rebuild no search returns a chunk of a file that was in the
\* previous file set and is not in the new one.
C10_NoStaleChunks ==
  run.search # None =>
    run.search[1] \cap (prev_files \ Range(session_state.uploaded_files)) = {}

\* The files one search of the assistant's store can return chunks of.
Retrievable == UNION SearchResults(World)

\* C11: when an upload finishes, chunks of every file of the set whose ingest
\* returned True are retrievable from the store that ask searches.
C11_AllIngestedRetrievable ==
  \A i \in DOMAIN run.ingested :
    run.ingested[i].ret => run.ingested[i].file \in Retrievable

\* An upload of two files, both ingested.
C11_Witness ==
  /\ Len(run.ingested) = 2
  /\ \A i \in DOMAIN run.ingested : run.ingested[i].ret

\* The files ingest was called for in this run, in call order.
AttemptedFiles == [i \in DOMAIN run.ingested |-> run.ingested[i].file]

\* C12: an upload calls ingest for every file of the set, in order, whatever
\* the earlier calls returned; a failing ingest returns False and nothing
\* escapes the run.
C12_EveryFileAttempted ==
  run.ingested # <<>> =>
    /\ AttemptedFiles = session_state.uploaded_files
    /\ run.raised = None
    /\ rerun_pending /\ session_state.pdf_processed

\* The first document of a set of two failed and the second was ingested.
C12_Witness ==
  /\ Len(run.ingested) = 2
  /\ ~run.ingested[1].ret
  /\ run.ingested[2].ret

\* C13: an ingest of a document from which no text is recovered returns False
\* and leaves the assistant's vector store, retriever and chain, and the
\* collection, as they were before the call.
C13_EmptyDocumentChangesNothing ==
  (guard_out # None /\ guard_out[1].op = "ingest"
     /\ guard_out[1].load = "empty")
    =>
    /\ ~guard_out[1].ret
    /\ session_state.pdf_assistant = guard_out[1].before.pdf_assistant
    /\ chroma_db = guard_out[1].before.chroma

\* An empty document was ingested by an assistant that held an index.
C13_Witness ==
  /\ guard_out # None
  /\ guard_out[1].op = "ingest"
  /\ guard_out[1].load = "empty"
  /\ guard_out[1].before.pdf_assistant = Bound

\* The literal k, in any letter case, is in s at position i.
LitAt(s, k, i) ==
  /\ i >= 1
  /\ i + Len(k) - 1 <= Len(s)
  /\ \A j \in 1..Len(k) : UpperChar(s[i + j - 1]) = UpperChar(k[j])

Blank(s, a, b) == \A j \in a..b : s[j] \in Whitespace

\* The text left of an answer once the reasoning block is cut off: what
\* follows the first end marker, the whole answer when it has none.
MarkerAt(text, i) ==
  i + Len(kThinkEnd) - 1 <= Len(text)
    /\ SubSeq(text, i, i + Len(kThinkEnd) - 1) = kThinkEnd

Body(text) ==
  IF \E i \in 1..Len(text) : MarkerAt(text, i)
  THEN LET i == CHOOSE i \in 1..Len(text) :
                  MarkerAt(text, i) /\ \A j \in 1..(i - 1) : ~MarkerAt(text, j)
       IN  SubSeq(text, i + Len(kThinkEnd), Len(text))
  ELSE text

\* A fenced sql block opens at i and closes at c.
FencedAt(t, i, c) ==
  /\ LitAt(t, kFenceSql, i)
  /\ c >= i + Len(kFenceSql)
  /\ LitAt(t, kFence, c)

\* r is the content of the first fenced sql block of t, up to its first
\* closing fence.
FencedResult(t, r) ==
  \E i \in 1..Len(t) :
    /\ LitAt(t, kFenceSql, i)
    /\ \E c \in (i + Len(kFenceSql))..Len(t) :
         /\ FencedAt(t, i, c)
         /\ \A i2 \in 1..(i - 1) : \A c2 \in 1..Len(t) : ~FencedAt(t, i2, c2)
         /\ \A c2 \in (i + Len(kFenceSql))..(c - 1) : ~LitAt(t, kFence, c2)
         /\ r = strip(SubSeq(t, i + Len(kFenceSql), c - 1))

\* A statement starts at j with SELECT and a space and ends at the semicolon
\* at e, with no semicolon before e.
StatementAt(t, j, e) ==
  /\ LitAt(t, kSelectSp, j)
  /\ e >= j + Len(kSelectSp)
  /\ e <= Len(t)
  /\ t[e] = ";"
  /\ \A x \in (j + Len(kSelectSp))..(e - 1) : t[x] # ";"

\* The prefix at i is followed, after blanks only, by the statement j..e.
PrefixedAt(t, i, j, e) ==
  /\ LitAt(t, kSqlQuery, i)
  /\ j >= i + Len(kSqlQuery)
  /\ Blank(t, i + Len(kSqlQuery), j - 1)
  /\ StatementAt(t, j, e)

HasPrefixed(t, i) == \E j \in i..Len(t) : \E e \in j..Len(t) : PrefixedAt(t, i, j, e)

\* r is the statement that follows the first matching prefix of t.
PrefixedResult(t, r) ==
  \E i \in 1..Len(t) :
    /\ LitAt(t, kSqlQuery, i)
    /\ \A i2 \in 1..(i - 1) : ~HasPrefixed(t, i2)
    /\ \E j \in i..Len(t) : \E e \in j..Len(t) :
         PrefixedAt(t, i, j, e) /\ r = strip(SubSeq(t, j, e))

HasStatement(t, j) == \E e \in j..Len(t) : StatementAt(t, j, e)

\* r is the first statement of t.
BareResult(t, r) ==
  \E j \in 1..Len(t) :
    /\ LitAt(t, kSelectSp, j)
    /\ \A j2 \in 1..(j - 1) : ~HasStatement(t, j2)
    /\ \E e \in j..Len(t) : StatementAt(t, j, e) /\ r = strip(SubSeq(t, j, e))

AnyFenced(t) == \E i \in 1..Len(t) : \E c \in i..Len(t) : FencedAt(t, i, c)
AnyPrefixed(t) == \E i \in 1..Len(t) : HasPrefixed(t, i)
AnyStatement(t) == \E j \in 1..Len(t) : HasStatement(t, j)

\* r is what the strategies give for t, taken in their order.
FirstMatch(t, r) ==
  IF AnyFenced(t) THEN FencedResult(t, r)
  ELSE IF AnyPrefixed(t) THEN PrefixedResult(t, r)
  ELSE IF AnyStatement(t) THEN BareResult(t, r)
  ELSE r = strip(t)

\* C14: extract_sql_query returns the content of the first fenced sql block;
\* when there is none, the statement after the first "SQL query:" prefix; when
\* there is none, the first bare SELECT statement ending in a semicolon; when
\* there is none, the trimmed text.
C14_FirstMatchingStrategy ==
  guard_out # None => FirstMatch(Body(guard_in), guard_out[1])

\* An answer in which a bare statement comes before a prefixed one and no
\* fenced block: the prefixed statement is returned.
C14_Witness ==
  /\ guard_out # None
  /\ ~AnyFenced(Body(guard_in))
  /\ AnyPrefixed(Body(guard_in))
  /\ ~BareResult(Body(guard_in), guard_out[1])

HasMarker(text) == \E i \in 1..Len(text) : MarkerAt(text, i)

\* The reasoning block of an answer: what precedes its body.
Reasoning(text) == SubSeq(text, 1, Len(text) - Len(Body(text)))

NoStrategyMatches(t) == ~AnyFenced(t) /\ ~AnyPrefixed(t) /\ ~AnyStatement(t)

\* C15: when the answer holds the end marker of a reasoning block, what
\* extract_sql_query returns is taken from the text after the first marker
\* only, and is that text trimmed when no strategy matches in it.
C15_ReasoningDiscarded ==
  (guard_out # None /\ HasMarker(guard_in))
    =>
    /\ Contains(Body(guard_in), guard_out[1])
    /\ NoStrategyMatches(Body(guard_in)) => guard_out[1] = strip(Body(guard_in))

\* A statement occurs in the reasoning block only, and is not returned.
C15_Witness ==
  /\ guard_out # None
  /\ HasMarker(guard_in)
  /\ AnyStatement(Reasoning(guard_in))
  /\ NoStrategyMatches(Body(guard_in))
  /\ guard_out[1] = <<"n", "o">>

\* The original wording of C16: in a connection lifetime the introspection is
\* issued at most once, also when it fails.
C16_AtMostOneIntrospection ==
  guard_out[1].lifetime > 0 => guard_out[1].fetches <= 1

\* C16: in a connection lifetime no introspection is issued after one that
\* succeeded, so at most one succeeds; an introspection that fails caches
\* nothing and the next call introspects again.
C16_NoIntrospectionAfterSuccess ==
  guard_out[1].lifetime > 0 =>
    /\ guard_out[1].late = 0
    /\ guard_out[1].op = "get_cached_schema" =>
         (guard_out[1].ret = None <=> ~guard_out[1].good)

\* The schema was returned from the cache: no introspection in this call
\* although one was issued earlier in the lifetime.
C16_Witness ==
  /\ guard_out[1].lifetime > 0
  /\ guard_out[1].op = "get_cached_schema"
  /\ guard_out[1].fetches = 1
  /\ guard_out[1].now = 0
  /\ guard_out[1].ret # None

\* C17: right after a successful connect_database and right after a
\* disconnect_database the schema cache is empty.
C17_CacheEmptyAfterConnectAndDisconnect ==
  (guard_out[1].op \in {"connect", "disconnect"} /\ guard_out[1].ok)
    => session_state.schema_cache = None

\* C18: the schema get_cached_schema returns while a connection is open was
\* read from the host, port and database of that connection.
C18_SchemaOfConnectedDatabase ==
  (guard_out[1].op = "get_cached_schema" /\ guard_out[1].ret # None
     /\ session_state.db # None)
    => guard_out[1].ret[1].of = session_state.db[1]

\* The turns of the chat, as it was before the question of this run, that
\* fall in the window of the translator.
LoggedTurns == LastN(run.chat_before, HistoryWindow)

\* C19: the history get_llm_response renders holds the turns the router
\* appended to the chat log for the earlier questions of the session.
C19_HistoryIsTheChatLog ==
  run.history # None =>
    \A i \in DOMAIN LoggedTurns :
      \E j \in DOMAIN run.history[1] :
        run.history[1][j] = HistoryLine(LoggedTurns[i])

\* C20: the rendered history has at most HistoryWindow lines, they are the
\* lines of the last turns of the stored history in their order, none when
\* maintain_context is false, and the stored history is as before the call.
C20_WindowOfRecentTurns ==
  guard_out # None =>
    LET h == guard_out[1].before
        r == run.history[1]
        skip == Len(h) - Len(r)
    IN  /\ Len(r) <= HistoryWindow
        /\ session_state.conversation_history = h
        /\ ~guard_out[1].maintain_context => r = <<>>
        /\ guard_out[1].maintain_context =>
             /\ Len(r) = IF Len(h) < HistoryWindow THEN Len(h) ELSE HistoryWindow
             /\ \A i \in 1..Len(r) :
                  /\ r[i][1] = h[skip + i].role
                  /\ r[i][3] = h[skip + i].content

\* A history longer than the window was rendered: its first turn is left out.
C20_Witness ==
  /\ guard_out # None
  /\ guard_out[1].maintain_context
  /\ Len(guard_out[1].before) > HistoryWindow
  /\ Len(run.history[1]) = HistoryWindow
  /\ guard_out[1].before[1] # guard_out[1].before[Len(guard_out[1].before)]

\* The classifier call failed, or said something that is neither label.
NoLabel(says) == says \notin {Some(StructuredLabel), Some(UnstructuredLabel)}

\* C21: a question whose classification fails, or gives neither label, is
\* handled as unstructured: it takes the retrieval branch behind its guard,
\* no translation and no statement is started for it, and nothing is raised.
C21_FailOpenToUnstructured ==
  (guard_out # None /\ NoLabel(guard_out[1].says))
    =>
    /\ run.label = Some(UnstructuredLabel)
    /\ ~run.sql_path
    /\ run.rq = None
    /\ run.executed = {}
    /\ run.raised = None
    /\ run.ask_called <=> guard_out[1].before.pdf_processed
    /\ ~guard_out[1].before.pdf_processed
         => "Please upload and process a PDF first." \in run.errors

\* The classifier call failed in a session that has a database connection
\* and an index, and the question was answered from the documents.
C21_Witness ==
  /\ guard_out # None
  /\ guard_out[1].says = None
  /\ guard_out[1].before.db # None
  /\ run.ask_called
  /\ run.search # None

\* The files uploaded in the session with state mine and not in the one with
\* state theirs.
OnlyIn(mine, theirs) == Range(mine.uploaded_files) \ Range(theirs.uploaded_files)

\* C22: a search of one session never returns a chunk of a file that only
\* the other session uploaded.
C22_NoSharedCorpus ==
  /\ run.search # None =>
       run.search[1] \cap OnlyIn(OtherSession, session_state) = {}
  /\ guard_in.search # None =>
       guard_in.search[1] \cap OnlyIn(session_state, OtherSession) = {}

\* C23: ask calls the model only with an index built, a question that is not
\* blank and at least one retrieved chunk; without an index it returns the
\* load-a-document message and retrieves nothing; when nothing is retrieved
\* it returns the no-relevant-information message and calls no model; it
\* raises nothing.
C23_AskGuards ==
  (guard_out # None /\ guard_out[1].op = "ask")
    =>
    /\ run.llm_called =>
         /\ guard_out[1].before.pdf_assistant.chain # None
         /\ strip(guard_out[1].question) # <<>>
         /\ run.search # None
         /\ run.search[1] # {}
    /\ guard_out[1].before.pdf_assistant.chain = None =>
         /\ guard_out[1].ret = "Please load a PDF document first."
         /\ run.search = None
         /\ ~run.llm_called
    /\ run.search = Some({}) =>
         /\ guard_out[1].ret = "No relevant information found in the document."
         /\ ~run.llm_called
    /\ run.raised = None

\* An assistant with an index was asked a question and retrieved nothing.
C23_Witness ==
  /\ guard_out # None
  /\ guard_out[1].op = "ask"
  /\ guard_out[1].before.pdf_assistant.chain # None
  /\ run.search = Some({})
  /\ guard_out[1].ret = "No relevant information found in the document."

\* The file at the path of a read exists when it is read: it is the uploaded
\* file, or it is in the temporary directory, which still exists.
Readable(read, file) == read.path = file \/ read.tmpdir

\* C24 as stated: ingest fails at the extraction stage only if neither
\* extractor would recover text from the file.
C24_FailsOnlyIfBothRecoverNothing ==
  (guard_out # None /\ guard_out[1].op = "ingest" /\ ~guard_out[1].ret)
    => (guard_out[1].pypdf # "text" /\ guard_out[1].unstructured # "text")

\* C24: an OCR failure alone does not fail ingest: after it the extractors
\* read the original file; when the structured extractor raises, the
\* layout-tolerant one reads the same file; ingest fails at extraction only
\* if the structured extractor recovers nothing or both of them raise or
\* recover nothing; every file read exists when it is read.
C24_ExtractionFallbacks ==
  (guard_out # None /\ guard_out[1].op = "ingest")
    =>
    LET c == guard_out[1]
    IN  /\ c.reads[1].by = "PyPDFLoader"
        /\ ~c.ocr_ok => c.reads[1].path = c.file
        /\ (~c.ocr_ok /\ c.pypdf = "text") => c.ret
        /\ c.pypdf = "raises" =>
             /\ Len(c.reads) = 2
             /\ c.reads[2].by = "UnstructuredPDFLoader"
             /\ c.reads[2].path = c.reads[1].path
             /\ c.ret = (c.unstructured = "text")
        /\ ~c.ret =>
             \/ c.pypdf = "nothing"
             \/ c.pypdf = "raises" /\ c.unstructured # "text"
        /\ \A i \in DOMAIN c.reads : Readable(c.reads[i], c.file)

\* OCR failed, the structured extractor raised, and the layout-tolerant one
\* recovered the text of the original file.
C24_Witness ==
  /\ guard_out # None
  /\ guard_out[1].op = "ingest"
  /\ ~guard_out[1].ocr_ok
  /\ guard_out[1].pypdf = "raises"
  /\ guard_out[1].unstructured = "text"
  /\ guard_out[1].ret

\* C25: an empty result is exported as None; the blob of a result that is
\* not empty is the line of the column names followed by one line per row,
\* and the rows can be recovered from it: two results with the same blob are
\* the same rows.
C25_CsvRecoversRows ==
  guard_out # None =>
    LET result == guard_in[1]
        other == guard_in[2]
        csv == guard_out[1][1]
        other_csv == guard_out[1][2]
    IN  /\ result = <<>> => csv = None
        /\ csv # None =>
             /\ csv[1][1] = Columns
             /\ Len(csv[1]) = Len(result) + 1
        /\ (csv # None /\ csv = other_csv) => result = other

\* The lines of a text that are lines of table rows after the header and the
\* separator: those from the fifth on that start with the bar.
DataRows(text) ==
  SelectSeq(SubSeq(text, 5, Len(text)), LAMBDA l : l # <<>> /\ l[1] = "|")

\* C26: the text of a result of n rows has min(n, 10) data rows, the first
\* rows in their order; its heading has n; the truncation note is there if
\* and only if n > 10; for n = 0 the text is the no-results message alone.
C26_PreviewOfFirstRows ==
  guard_out # None =>
    LET result == guard_in
        n == Len(guard_in)
        text == guard_out[1]
        shown == IF n < 10 THEN n ELSE 10
    IN  IF n = 0
        THEN text = << <<"No results found.">> >>
        ELSE /\ Len(DataRows(text)) = shown
             /\ \A i \in 1..shown :
                  DataRows(text)[i] = <<"|", result[i].name, "|">>
             /\ text[1] = <<"**Query Results (", NumStr(n), " rows)**">>
             /\ (text[Len(text)][1] = "Showing first ") <=> (n > 10)
             /\ n > 10 => text[Len(text)] = TruncationNote(n)

\* A result of more than ten rows, whose first and last rows differ, was
\* formatted.
C26_Witness ==
  /\ guard_out # None
  /\ Len(guard_in) > 10
  /\ guard_in[1] # guard_in[Len(guard_in)]
  /\ Len(guard_out[1]) = 16

\* C27: once the user has logged out, a structured question of a user with
\* the employee role, who cannot connect, is answered with the
\* connect-first error and no statement is executed.
C27_LogoutEndsDatabaseSession ==
  (session_state.user_role = Some("employee")
     /\ run.question # None /\ run.label = Some(StructuredLabel))
    =>
    /\ "Please connect to the database first." \in run.errors
    /\ ~run.sql_path
    /\ run.executed = {}

\* old is the start of new.
StartOf(old, new) ==
  Len(old) <= Len(new) /\ SubSeq(new, 1, Len(old)) = old

\* C28: in every run between login and logout, every chat stays stored; a
\* run that handles a question stores the conversation log as the history of
\* the active chat, which it extends; the stored history of every other
\* chat, and of every chat in a run without a question, is as before, a new
\* chat taking a name that no stored chat has.
C28_HistoriesKept ==
  [][ (session_state.logged_in /\ session_state'.logged_in)
      =>
      /\ \A t \in DOMAIN session_state.chat_histories :
           /\ t \in DOMAIN session_state'.chat_histories
           /\ IF run'.question # None /\ session_state'.active_chat = Some(t)
              THEN StartOf(session_state.chat_histories[t],
                           session_state'.chat_histories[t])
              ELSE session_state'.chat_histories[t] =
                     session_state.chat_histories[t]
      /\ run'.question # None =>
           /\ session_state'.active_chat # None
           /\ session_state'.chat_histories[session_state'.active_chat[1]] =
                session_state'.chat ]_vars

\* A question was handled in the first chat, opened again while the second
\* chat holds a history.
C28_Witness ==
  /\ run.question # None
  /\ Cardinality(DOMAIN session_state.chat_histories) = 2
  /\ session_state.active_chat = Some(1)
  /\ session_state.chat_histories[2] # <<>>
  /\ session_state.chat_histories[1] = session_state.chat

===========================================================================
